---------------------------- MODULE Spec2Model ----------------------------
(***************************************************************************)
(* Token-aware text alignment of aalchem.data.strings / .alignment.        *)
(*                                                                         *)
(* Strings are sequences of one-character strings.  Token objects live in  *)
(* a heap indexed by object identity; a Text is a list of object ids, so   *)
(* that two lists holding the same Python object hold the same id.         *)
(* Scores are the source's floats multiplied by Scale, which makes every   *)
(* score of the model an integer; for texts of up to four characters the   *)
(* source's floats are exact, so ties are the same in both.                *)
(***************************************************************************)
EXTENDS Integers, Sequences, FiniteSets, TLC

(***************************************************************************)
(* Bounds of the model.                                                    *)
(***************************************************************************)
MaxStrLen == 3
MaxTok == 8
MaxLen == 3
MaxSelfLen == 5
MaxAligns == 1
MaxInserts == 1
MaxLoads == 1
MaxSerLen == 2
MaxDictLen == 2
MaxExampleLen == 7
MaxCostLen == 1
MaxLater == 1
MaxLaterStrLen == 2
MaxPoolLen == 2
MaxUnits == 2
MaxUnitLen == 2
MaxCharInserts == 1

Alphabet == {"a", " ", ","}
InsertStrings == {<<>>, <<"a">>, <<"b", "b">>}

UserSlots == {1, 2}
NSlots == Cardinality(UserSlots) + 2
Slots == 1 .. NSlots
OutA == NSlots - 1
OutB == NSlots

Scale == 2 * 60

Max2(x, y) == IF x >= y THEN x ELSE y

StringsUpTo(n) == UNION {[1 .. k -> Alphabet] : k \in 0 .. n}

(***************************************************************************)
(* strings.py: constants and token classification                         *)
(***************************************************************************)
PUNCTUATION_MARKS ==
  {<<".">>, <<",">>, <<"!">>, <<"?">>, <<":">>, <<";">>, <<"(">>, <<")">>,
   <<"[">>, <<"]">>, <<"{">>, <<"}">>, <<"\"">>, <<"'">>, <<"-">>,
   <<"'", "'">>}

Letters ==
  {"a", "b", "c", "d", "e", "g", "h", "i", "l", "o", "r", "s", "t", "u"}
Digits == {"0", "1"}
\* the class [A-Za-z...0-9\'-.] : letters, digits and the range ' .. .
WordChars == Letters \cup Digits \cup {"'", "(", ")", "*", "+", ",", "-", "."}

IsDigit(text) == Len(text) > 0 /\ \A k \in 1 .. Len(text) : text[k] \in Digits

WORD_PATTERN(text) ==
  Len(text) > 0 /\ \A k \in 1 .. Len(text) : text[k] \in WordChars

KindOf(text) ==
  IF text = <<" ">> THEN "Whitespace"
  ELSE IF text \in PUNCTUATION_MARKS THEN "Punctuation"
  ELSE IF IsDigit(text) THEN "Numeric"
  ELSE IF WORD_PATTERN(text) THEN "Word"
  ELSE IF text = <<>> THEN "Spacer"
  ELSE IF text \in {<<"\n">>, <<"\t">>} THEN "Special"
  ELSE "Token"

NoOriginal == [present |-> FALSE, kind |-> "Token", text |-> <<>>]

\* Token.__init__ : index and start are None until the owning Text reindexes,
\* which every constructor call of the model is followed by in the same step.
NewToken(kind, text, aligned, spaces, orig) ==
  [kind |-> kind, text |-> text, index |-> 0, start |-> 0,
   aligned |-> aligned, alignment_spaces |-> spaces, color |-> "",
   bg |-> "None", original |-> orig, operation |-> "None"]

create_token(text) == NewToken(KindOf(text), text, FALSE, 0, NoOriginal)

IsInstance(k1, k2) == k2 = "Token" \/ k1 = k2

(***************************************************************************)
(* strings.py: tokenizer                                                   *)
(***************************************************************************)
IsSpace(c) == c = " "

\* nltk.word_tokenize on the model's alphabet: whitespace separates, a comma
\* is a token of its own, a maximal run of other characters is one token.
RECURSIVE WordTokenizeFrom(_, _, _, _)
WordTokenizeFrom(text, k, cur, acc) ==
  IF k > Len(text)
    THEN IF cur = <<>> THEN acc ELSE Append(acc, cur)
  ELSE IF IsSpace(text[k])
    THEN WordTokenizeFrom(text, k + 1, <<>>,
                          IF cur = <<>> THEN acc ELSE Append(acc, cur))
  ELSE IF text[k] = ","
    THEN WordTokenizeFrom(text, k + 1, <<>>,
                          Append(IF cur = <<>> THEN acc ELSE Append(acc, cur),
                                 <<",">>))
  ELSE WordTokenizeFrom(text, k + 1, Append(cur, text[k]), acc)

word_tokenize(text) == WordTokenizeFrom(text, 1, <<>>, <<>>)

\* str.find(token, current_index): 0-based offset, or -1
Find(text, token, from) ==
  LET hits == {k \in from .. (Len(text) - Len(token)) :
                 \A d \in 1 .. Len(token) : text[k + d] = token[d]}
  IN IF hits = {} THEN 0 - 1 ELSE CHOOSE k \in hits : \A h \in hits : k <= h

RECURSIVE TakeSpaces(_, _, _)
TakeSpaces(text, cur, acc) ==
  IF cur < Len(text) /\ IsSpace(text[cur + 1])
    THEN TakeSpaces(text, cur + 1, Append(acc, <<text[cur + 1]>>))
    ELSE [cur |-> cur, acc |-> acc]

\* [ok, tokens]: ok = FALSE stands for the ValueError of line 591
RECURSIVE WhitespaceTokenizeFrom(_, _, _, _)
WhitespaceTokenizeFrom(text, toks, cur, acc) ==
  IF toks = <<>> THEN [ok |-> TRUE, tokens |-> acc]
  ELSE LET token == Head(toks)
           start_token_index == Find(text, token, cur)
       IN IF start_token_index = 0 - 1
            THEN [ok |-> FALSE, tokens |-> <<>>]
            ELSE LET sp == TakeSpaces(text, start_token_index + Len(token),
                                      Append(acc, token))
                 IN WhitespaceTokenizeFrom(text, Tail(toks), sp.cur, sp.acc)

whitespace_tokenize_from_nltk(text) ==
  WhitespaceTokenizeFrom(text, word_tokenize(text), 0, <<>>)

(***************************************************************************)
(* State                                                                   *)
(*   heap   the Token objects ever constructed, by object identity         *)
(*   texts  the Text objects the caller holds: slots 1, 2 are built by the *)
(*          caller, slots OutA, OutB receive the result of align_sentences *)
(*   call   what the last call of align_sentences did                      *)
(*   naligns, ninserts, nloads  how many calls of align_sentences, of      *)
(*          Text.insert and of Text.from_dict the caller has made          *)
(***************************************************************************)
VARIABLES heap, texts, call, naligns, ninserts, nloads

vars == <<heap, texts, call, naligns, ninserts, nloads>>

(***************************************************************************)
(* strings.py: Text                                                        *)
(***************************************************************************)
NoSpaceKinds == {"Punctuation", "Whitespace", "Spacer"}

\* (the test on h2 is always true: with it TLC evaluates each assignment as
\* it goes, as the loop does, instead of piling them up until the end)
RECURSIVE RecalcFrom(_, _, _, _)
RecalcFrom(h, toks, i, start) ==
  IF i > Len(toks) THEN h
  ELSE LET id == toks[i]
           has_next == i + 1 <= Len(toks)
           no_space_needed == has_next /\ h[toks[i + 1]].kind \in NoSpaceKinds
           offset == IF has_next /\ ~no_space_needed THEN 1 ELSE 0
           h2 == [h EXCEPT ![id].index = i - 1, ![id].start = start]
       IN IF h2[id].start = start
            THEN RecalcFrom(h2, toks, i + 1, start + Len(h2[id].text) + offset)
            ELSE h2

\* Text.recalculate_indices: index and start of every token, in list order
recalculate_indices(h, toks) == RecalcFrom(h, toks, 1, 0)

InsertAt(toks, index, id) ==
  LET k == IF index > Len(toks) THEN Len(toks) ELSE index
  IN SubSeq(toks, 1, k) \o <<id>> \o SubSeq(toks, k + 1, Len(toks))

\* Text.at_position: the first token of the list whose test passes, 0 for
\* None
at_position(h, toks, pos) ==
  LET hits == {k \in 1 .. Len(toks) :
                 /\ h[toks[k]].start <= pos
                 /\ pos <= h[toks[k]].start + Len(h[toks[k]].text)}
  IN IF hits = {} THEN 0
     ELSE toks[CHOOSE k \in hits : \A other \in hits : k <= other]

\* text[:k] + char + text[k:]
InsertCharAt(text, k, char) ==
  SubSeq(text, 1, k) \o <<char>> \o SubSeq(text, k + 1, Len(text))

\* Text.insert_char: the token found by at_position gets its text assigned
\* by the statement of lines 424-428 and again by the one of lines 429-433,
\* then the Text is reindexed; no token found leaves everything as it is
insert_char(h, toks, index, char) ==
  LET id == at_position(h, toks, index)
  IN IF id = 0 THEN h
     ELSE LET k == index - h[id].start
              first == InsertCharAt(h[id].text, k, char)
              second == InsertCharAt(first, k, char)
          IN recalculate_indices([h EXCEPT ![id].text = second], toks)

RECURSIVE Concat(_, _, _)
Concat(h, toks, i) ==
  IF i > Len(toks) THEN <<>> ELSE h[toks[i]].text \o Concat(h, toks, i + 1)

\* Text.to_string: "".join of the token texts
to_string(h, toks) == Concat(h, toks, 1)

RECURSIVE ReconstructFrom(_, _, _)
ReconstructFrom(h, toks, i) ==
  IF i > Len(toks) THEN <<>>
  ELSE LET sep == IF i + 1 <= Len(toks)
                       /\ h[toks[i + 1]].kind \notin NoSpaceKinds
                    THEN <<" ">> ELSE <<>>
       IN h[toks[i]].text \o sep \o ReconstructFrom(h, toks, i + 1)

reconstruct_text_with_rules(h, toks) == ReconstructFrom(h, toks, 1)

\* Token.text_aligned: the text plus alignment_spaces fillers when aligned
TextAlignedLen(tok) ==
  IF tok.aligned THEN Len(tok.text) + tok.alignment_spaces ELSE Len(tok.text)

RECURSIVE ClearFrom(_, _, _)
ClearFrom(h, toks, i) ==
  IF i > Len(toks) THEN h
  ELSE ClearFrom([h EXCEPT ![toks[i]].aligned = FALSE,
                           ![toks[i]].alignment_spaces = 0,
                           ![toks[i]].color = "None"], toks, i + 1)

clear_alignment(h, toks) == ClearFrom(h, toks, 1)

RECURSIVE MakeTokens(_, _)
MakeTokens(strs, i) ==
  IF i > Len(strs) THEN <<>>
  ELSE <<create_token(strs[i])>> \o MakeTokens(strs, i + 1)

(***************************************************************************)
(* strings.py: serialization.  A dictionary is a function from its keys;   *)
(* None is the string "None" (or, for the nested original, a record whose  *)
(* present is FALSE).  Colour values: "" is the constructor's default,     *)
(* "None" is None, and "BLUE", "RED", ... are colorama's escape codes.     *)
(***************************************************************************)
COLOR_MAPPING ==
  [b |-> "BLUE", r |-> "RED", g |-> "GREEN", p |-> "MAGENTA",
   y |-> "YELLOW", c |-> "CYAN", w |-> "WHITE", k |-> "BLACK"]

\* str.lower(): an escape code and the empty string have no upper-case letter
Lower(color) ==
  LET upper == [B |-> "b", R |-> "r", G |-> "g", P |-> "p",
                Y |-> "y", C |-> "c", W |-> "w", K |-> "k"]
  IN IF color \in DOMAIN upper THEN upper[color] ELSE color

\* lines 162-166: COLOR_MAPPING.get(data["color"].lower())
ColorCode(color) ==
  IF color = "None" THEN "None"
  ELSE IF Lower(color) \in DOMAIN COLOR_MAPPING
    THEN COLOR_MAPPING[Lower(color)]
  ELSE "None"

NoneDict == [present |-> FALSE, type |-> "Token", text |-> <<>>]

\* bool(token): Token defines __len__ and no __bool__
Truthy(original) == original.present /\ Len(original.text) # 0

TokenToDictBaseType(tok) ==
  [type |-> "Token", text |-> tok.text, index |-> tok.index,
   color |-> tok.color, bg |-> tok.bg,
   original |-> IF Truthy(tok.original)
                  THEN [present |-> TRUE, type |-> tok.original.kind,
                        text |-> tok.original.text]
                  ELSE NoneDict,
   operation |-> tok.operation, start |-> tok.start,
   aligned |-> tok.aligned, alignment_spaces |-> tok.alignment_spaces]

\* Token.to_dict
TokenToDict(tok) ==
  [type |-> tok.kind, text |-> tok.text, index |-> tok.index,
   color |-> tok.color, bg |-> tok.bg,
   original |-> IF Truthy(tok.original)
                  THEN [present |-> TRUE, type |-> tok.original.kind,
                        text |-> tok.original.text]
                  ELSE NoneDict,
   operation |-> tok.operation, start |-> tok.start,
   aligned |-> tok.aligned, alignment_spaces |-> tok.alignment_spaces]

\* Text.to_dict; _text is to_string() as of the last recalculate_indices
TextToDict(h, toks) ==
  [tokens |-> [k \in 1 .. Len(toks) |-> TokenToDict(h[toks[k]])],
   text |-> to_string(h, toks)]

EmptyDict == [tokens |-> <<>>, text |-> <<>>]

TOKEN_CLASSES ==
  {"Token", "Whitespace", "Spacer", "Punctuation", "Word", "Special",
   "Numeric"}

\* the names globals() of strings.py holds
ModuleGlobals ==
  TOKEN_CLASSES
    \cup {"create_token", "Text", "reconstruct_text_with_rules",
          "compare_texts", "whitespace_tokenize_from_nltk",
          "COLOR_MAPPING", "PUNCTUATION_MARKS", "WORD_PATTERN",
          "nltk", "json", "re", "Fore", "Style", "Back",
          "List", "Tuple", "Optional", "Dict", "Any", "abstractmethod"}

\* the globals that accept the keyword arguments of lines 177-187
AcceptsTokenArguments(name) == name \in TOKEN_CLASSES \cup {"create_token"}

\* the class of the object token_class(text=..., ...) returns
TokenClass(name, text) == IF name = "create_token" THEN KindOf(text) ELSE name

TOKEN_FIELDS ==
  {"type", "text", "index", "color", "bg", "original", "operation",
   "start", "aligned", "alignment_spaces"}

Raised(error) == [status |-> error, token |-> create_token(<<>>)]

\* lines 168-173 for the nested record: cls.from_dict(data["original"])
OriginalFromDict(original) ==
  IF ~original.present THEN [status |-> "ok", original |-> NoOriginal]
  ELSE IF original.type \notin ModuleGlobals
    THEN [status |-> "KeyError", original |-> NoOriginal]
  ELSE IF ~AcceptsTokenArguments(original.type)
    THEN [status |-> "TypeError", original |-> NoOriginal]
  ELSE [status |-> "ok",
        original |-> [present |-> TRUE,
                      kind |-> TokenClass(original.type, original.text),
                      text |-> original.text]]

\* Token.from_dict, in the order in which the keys are read
TokenFromDict(data) ==
  IF {"color", "original"} \ DOMAIN data # {} THEN Raised("KeyError")
  ELSE LET orig == OriginalFromDict(data.original)
       IN IF orig.status # "ok" THEN Raised(orig.status)
          ELSE IF "type" \notin DOMAIN data THEN Raised("KeyError")
          ELSE IF data.type \notin ModuleGlobals THEN Raised("KeyError")
          ELSE IF TOKEN_FIELDS \ DOMAIN data # {} THEN Raised("KeyError")
          ELSE IF ~AcceptsTokenArguments(data.type) THEN Raised("TypeError")
          ELSE [status |-> "ok",
                token |->
                  [NewToken(TokenClass(data.type, data.text), data.text,
                            data.aligned, data.alignment_spaces,
                            orig.original)
                   EXCEPT !.index = data.index, !.start = data.start,
                          !.color = ColorCode(data.color), !.bg = data.bg,
                          !.operation = data.operation]]

\* Text.from_dict: [status, h, toks]
TextFromDict(h, data) ==
  IF "tokens" \notin DOMAIN data
    THEN [status |-> "KeyError", h |-> h, toks |-> <<>>]
  ELSE LET rs == [k \in 1 .. Len(data.tokens) |->
                    TokenFromDict(data.tokens[k])]
           bad == {k \in 1 .. Len(rs) : rs[k].status # "ok"}
           ids == [k \in 1 .. Len(rs) |-> Len(h) + k]
       IN IF bad # {}
            THEN [status |-> rs[CHOOSE k \in bad : \A b \in bad : k <= b].status,
                  h |-> h, toks |-> <<>>]
          ELSE IF "text" \notin DOMAIN data
            THEN [status |-> "KeyError", h |-> h, toks |-> <<>>]
          ELSE [status |-> "ok",
                h |-> recalculate_indices(
                        h \o [k \in 1 .. Len(rs) |-> rs[k].token], ids),
                toks |-> ids]

(***************************************************************************)
(* alignment.py: scoring                                                   *)
(***************************************************************************)
match_score == Scale
mismatch_score == 0 - Scale
gap_score == 0 - Scale
substring_match_score == (3 * Scale) \div 2
TypeMatchScoreLarge == 2 * Scale
type_match_score == Scale \div 2
original_match_score == Scale \div 2

\* dp[i][j] of longest_common_substring: the common suffix of s1[:i], s2[:j]
RECURSIVE CommonSuffix(_, _, _, _)
CommonSuffix(s1, s2, i, j) ==
  IF i = 0 \/ j = 0 THEN 0
  ELSE IF s1[i] = s2[j] THEN CommonSuffix(s1, s2, i - 1, j - 1) + 1
  ELSE 0

longest_common_substring(s1, s2) ==
  LET n == Len(s1)
      m == Len(s2)
      length == IF n = 0 \/ m = 0 THEN 0
                ELSE CHOOSE v \in 0 .. n :
                       /\ \A i \in 1 .. n, j \in 1 .. m :
                            CommonSuffix(s1, s2, i, j) <= v
                       /\ v = 0 \/ \E i \in 1 .. n, j \in 1 .. m :
                                     CommonSuffix(s1, s2, i, j) = v
      \* row: the first i at which dp reaches the final length
      row == IF length = 0 THEN 0
             ELSE CHOOSE i \in 1 .. n :
                    /\ \E j \in 1 .. m : CommonSuffix(s1, s2, i, j) = length
                    /\ \A i2 \in 1 .. (i - 1), j \in 1 .. m :
                         CommonSuffix(s1, s2, i2, j) < length
  IN IF length = 0 THEN <<>> ELSE SubSeq(s1, row - length + 1, row)

\* lines 127-140: the comparison source and the original bonus
OriginalMatch(token1, token2) ==
  IF token1.original.present
    THEN (IF token1.original.text = token2.text
            THEN original_match_score ELSE 0)
         + (IF IsInstance(token1.original.kind, token2.kind)
              THEN type_match_score ELSE 0)
    ELSE 0

ToMatchText(token1) ==
  IF token1.original.present THEN token1.original.text ELSE token1.text

MismatchMinLen(token1, token2) ==
  LET a == Len(ToMatchText(token1))
      b == Len(token2.text)
  IN IF a <= b THEN a ELSE b

MismatchMaxLen(token1, token2) ==
  Max2(Len(ToMatchText(token1)), Len(token2.text))

TypeBonus(token1, token2) ==
  IF IsInstance(token1.kind, token2.kind) /\ MismatchMaxLen(token1, token2) > 1
    THEN type_match_score ELSE 0

MismatchScorePenalised(token1, token2) ==
  LET lcs == longest_common_substring(ToMatchText(token1), token2.text)
      max_len == MismatchMaxLen(token1, token2)
  IN mismatch_score - ((Len(lcs) * substring_match_score) \div max_len)
       + TypeBonus(token1, token2)

\* lines 143-149, defined when MismatchMaxLen > 0 (else ZeroDivisionError)
MismatchScoreAdjusted(token1, token2) ==
  LET lcs == longest_common_substring(ToMatchText(token1), token2.text)
      max_len == MismatchMaxLen(token1, token2)
  IN mismatch_score + ((Len(lcs) * substring_match_score) \div max_len)
       + TypeBonus(token1, token2)

DiagonalCostSameKind(token1, token2) ==
  IF token1.text = token2.text /\ token1.kind = token2.kind THEN match_score
  ELSE MismatchScoreAdjusted(token1, token2) + OriginalMatch(token1, token2)

\* the diagonal step of lines 123-153
DiagonalCost(token1, token2) ==
  IF token1.text = token2.text THEN match_score
  ELSE MismatchScoreAdjusted(token1, token2) + OriginalMatch(token1, token2)

DivisionByZero(token1, token2) ==
  token1.text # token2.text /\ MismatchMaxLen(token1, token2) = 0

BaseTraceNoUp(i, j) == IF i = 0 /\ j > 0 THEN {"L"} ELSE {}

\* lines 108-116: first row and column
BaseTrace(i, j) ==
  IF i > 0 /\ j = 0 THEN {"U"}
  ELSE IF i = 0 /\ j > 0 THEN {"L"}
  ELSE {}

InitScoreZero(n, m) == [i \in 0 .. n |-> [j \in 0 .. m |-> 0]]

InitScore(n, m) ==
  [i \in 0 .. n |-> [j \in 0 .. m |->
     IF j = 0 THEN gap_score * i ELSE IF i = 0 THEN gap_score * j ELSE 0]]

InitTrace(n, m) == [i \in 0 .. n |-> [j \in 0 .. m |-> BaseTrace(i, j)]]

TraceTagsFirst(max_score, match, delete, insert) ==
  IF max_score = match THEN {"D"}
  ELSE IF max_score = delete THEN {"U"}
  ELSE {"L"}

\* lines 163-168: every direction that reaches the maximum
TraceTags(max_score, match, delete, insert) ==
  (IF max_score = match THEN {"D"} ELSE {})
    \cup (IF max_score = delete THEN {"U"} ELSE {})
    \cup (IF max_score = insert THEN {"L"} ELSE {})

\* lines 120-168 for one i: the cells (i, j) .. (i, m), left to right
RECURSIVE FillRow(_, _, _, _, _, _, _)
FillRow(h, t1, t2, sm, tb, i, j) ==
  IF j > Len(t2) THEN [ok |-> TRUE, score |-> sm, trace |-> tb]
  ELSE LET token1 == h[t1[i]]
           token2 == h[t2[j]]
       IN IF DivisionByZero(token1, token2)
            THEN [ok |-> FALSE, score |-> sm, trace |-> tb]
            ELSE LET match == sm[i - 1][j - 1] + DiagonalCost(token1, token2)
                     delete == sm[i - 1][j] + gap_score
                     insert == sm[i][j - 1] + gap_score
                     max_score == Max2(match, Max2(delete, insert))
                     sm2 == [sm EXCEPT ![i][j] = max_score]
                     tb2 == [tb EXCEPT ![i][j] =
                               TraceTags(max_score, match, delete, insert)]
                 IN FillRow(h, t1, t2, sm2, tb2, i, j + 1)

\* lines 119-168, row by row
RECURSIVE FillFrom(_, _, _, _, _, _)
\* the rows after a filled row, unless the row raised
FillNext(h, t1, t2, row, i) ==
  IF row.ok THEN FillFrom(h, t1, t2, row.score, row.trace, i + 1) ELSE row

FillFrom(h, t1, t2, sm, tb, i) ==
  IF i > Len(t1) THEN [ok |-> TRUE, score |-> sm, trace |-> tb]
  ELSE FillNext(h, t1, t2, FillRow(h, t1, t2, sm, tb, i, 1), i)

\* needleman_wunsch_alignment_words_substring, after clear_alignment
needleman_wunsch_alignment_words_substring(h, t1, t2) ==
  FillFrom(h, t1, t2, InitScore(Len(t1), Len(t2)),
           InitTrace(Len(t1), Len(t2)), 1)

(***************************************************************************)
(* alignment.py: traceback and reconstruction                              *)
(***************************************************************************)
\* Text.insert(index, token): list insert, then recalculate_indices
InsertToken(h, toks, index, id) ==
  LET toks2 == InsertAt(toks, index, id)
  IN [h |-> recalculate_indices(h, toks2), toks |-> toks2]

MoveUpFirst(trace, i, j) ==
  IF "U" \in trace /\ i > 0 THEN "U"
  ELSE IF "D" \in trace /\ i > 0 /\ j > 0 THEN "D"
  ELSE IF "L" \in trace /\ j > 0 THEN "L"
  ELSE ""

\* lines 190-216: the move taken at a cell, "" for the break
Move(trace, i, j) ==
  IF "D" \in trace /\ i > 0 /\ j > 0 THEN "D"
  ELSE IF "U" \in trace /\ i > 0 THEN "U"
  ELSE IF "L" \in trace /\ j > 0 THEN "L"
  ELSE ""

\* lines 197-201 and 207-211: the Spacer put opposite the consumed token;
\* other is the token the code holds for the gapped side at this cell
GapSpacer(h, other, consumed) ==
  IF h[other].kind = "Spacer"
    THEN [h |-> [h EXCEPT ![other].alignment_spaces = Len(h[consumed].text)],
          id |-> other]
    ELSE [h |-> Append(h, NewToken("Spacer", <<>>, TRUE,
                                   Len(h[consumed].text), NoOriginal)),
          id |-> Len(h) + 1]

\* lines 191-194: the diagonal move
StepD(h, a1, a2, token1, token2) ==
  LET r1 == InsertToken(h, a1, 0, token1)
      r2 == InsertToken(r1.h, a2, 0, token2)
  IN [h |-> r2.h, a1 |-> r1.toks, a2 |-> r2.toks]

StepUNoGap(h, a1, a2, token1, token2) ==
  LET r1 == InsertToken(h, a1, 0, token1)
  IN [h |-> r1.h, a1 |-> r1.toks, a2 |-> a2]

\* lines 196-204: the up move, a gap in sequence 2
StepU(h, a1, a2, token1, token2) ==
  LET sp == GapSpacer(h, token2, token1)
      r1 == InsertToken(sp.h, a1, 0, token1)
      r2 == InsertToken(r1.h, a2, 0, sp.id)
  IN [h |-> r2.h, a1 |-> r1.toks, a2 |-> r2.toks]

\* lines 206-214: the left move, a gap in sequence 1
StepL(h, a1, a2, token1, token2) ==
  LET sp == GapSpacer(h, token1, token2)
      r1 == InsertToken(sp.h, a1, 0, sp.id)
      r2 == InsertToken(r1.h, a2, 0, token2)
  IN [h |-> r2.h, a1 |-> r1.toks, a2 |-> r2.toks]

\* lines 185-216.  fuel bounds the number of iterations the model follows:
\* status "NoFuel" says the loop was still running after fuel iterations.
RECURSIVE Walk(_, _, _, _, _, _, _, _, _, _)
Walk(h, t1, t2, tb, i, j, a1, a2, path, fuel) ==
  LET here(status) == [status |-> status, h |-> h, a1 |-> a1, a2 |-> a2,
                       path |-> path, i |-> i, j |-> j]
  IN IF ~(i >= 0 \/ j >= 0) THEN here("ok")
     ELSE IF fuel = 0 THEN here("NoFuel")
     ELSE IF (i = 0 /\ Len(t1) = 0) \/ (j = 0 /\ Len(t2) = 0)
       THEN here("IndexError")
     ELSE LET token1 == IF i > 0 THEN t1[i] ELSE t1[1]
              token2 == IF j > 0 THEN t2[j] ELSE t2[1]
              mv == Move(tb[i][j], i, j)
              step == Append(path, [i |-> i, j |-> j, move |-> mv])
              di == IF mv \in {"D", "U"} THEN 1 ELSE 0
              dj == IF mv \in {"D", "L"} THEN 1 ELSE 0
              \* (the test is always true; it makes TLC evaluate the
              \* iteration's insertions before the next iteration)
              Go(r) == IF Len(r.h) >= Len(h) /\ Len(r.a1) >= 0
                            /\ Len(r.a2) >= 0
                         THEN Walk(r.h, t1, t2, tb, i - di, j - dj, r.a1,
                                   r.a2, step, fuel - 1)
                         ELSE here("ok")
          IN IF mv = "D" THEN Go(StepD(h, a1, a2, token1, token2))
             ELSE IF mv = "U" THEN Go(StepU(h, a1, a2, token1, token2))
             ELSE IF mv = "L" THEN Go(StepL(h, a1, a2, token1, token2))
             ELSE here("ok")

\* lines 223-228
DiffColor(w1, w2) ==
  IF w1.kind = "Spacer" THEN "BLUE"
  ELSE IF w2.kind = "Spacer" THEN "MAGENTA"
  ELSE "RED"

\* lines 218-233: padding and colour of every differing pair, in order
RECURSIVE PostPass(_, _, _, _)
PostPass(h, a1, a2, k) ==
  IF k > Len(a1) \/ k > Len(a2) THEN h
  ELSE LET w1 == h[a1[k]]
           w2 == h[a2[k]]
       IN IF w1.text # w2.text
            THEN LET max_len == Max2(Len(w1.text), Len(w2.text))
                     color == DiffColor(w1, w2)
                     ha == [h EXCEPT ![a1[k]].alignment_spaces =
                                        max_len - Len(w1.text)]
                     hb == [ha EXCEPT ![a2[k]].alignment_spaces =
                                        max_len - Len(w2.text)]
                     hc == [hb EXCEPT ![a1[k]].aligned = TRUE,
                                      ![a1[k]].color = color]
                     hd == [hc EXCEPT ![a2[k]].aligned = TRUE,
                                      ![a2[k]].color = color]
                 IN PostPass(hd, a1, a2, k + 1)
            ELSE PostPass(h, a1, a2, k + 1)

\* get_alignment_and_visualization_words
get_alignment_and_visualization_words(h, t1, t2, tb) ==
  LET w == Walk(h, t1, t2, tb, Len(t1), Len(t2), <<>>, <<>>, <<>>,
                Len(t1) + Len(t2) + 2)
  IN IF w.status = "ok"
       THEN [w EXCEPT !.h = PostPass(w.h, w.a1, w.a2, 1)]
       ELSE w

NoCall ==
  [op |-> "none", string |-> <<>>, data |-> EmptyDict, pos |-> 0,
   result |-> 0, tokens1 |-> <<>>, tokens2 |-> <<>>,
   status |-> "none", score |-> InitScore(0, 0), trace |-> InitTrace(0, 0),
   path |-> <<>>, i |-> 0, j |-> 0, out1 |-> <<>>, out2 |-> <<>>]

\* align_sentences(text1, text2): [h, call]
align_sentences(h, t1, t2) ==
  LET h0 == clear_alignment(clear_alignment(h, t1), t2)
      sc == needleman_wunsch_alignment_words_substring(h0, t1, t2)
      base == [NoCall EXCEPT !.op = "align",
                             !.tokens1 = t1, !.tokens2 = t2,
                             !.score = sc.score, !.trace = sc.trace]
  IN IF ~sc.ok
       THEN [h |-> h0, call |-> [base EXCEPT !.status = "ZeroDivisionError"]]
       ELSE LET w == get_alignment_and_visualization_words(h0, t1, t2,
                                                           sc.trace)
                c == [base EXCEPT !.status = w.status, !.path = w.path,
                                  !.i = w.i, !.j = w.j]
            IN IF w.status # "ok"
                 THEN [h |-> w.h, call |-> c]
                 ELSE [h |-> recalculate_indices(
                               recalculate_indices(w.h, w.a1), w.a2),
                       call |-> [c EXCEPT !.out1 = w.a1, !.out2 = w.a2]]

(***************************************************************************)
(* Operations                                                              *)
(***************************************************************************)
Init ==
  /\ heap = <<>>
  /\ texts = [s \in Slots |-> <<>>]
  /\ call = NoCall
  /\ naligns = 0
  /\ ninserts = 0
  /\ nloads = 0

\* t = Text(string): tokenize, create the tokens, reindex
FromStringCapped(slot, string, cap) ==
  LET tk == whitespace_tokenize_from_nltk(string)
      new == MakeTokens(tk.tokens, 1)
      ids == [k \in 1 .. Len(new) |-> Len(heap) + k]
  IN /\ texts[slot] = <<>>
     /\ tk.ok
     /\ Len(heap) + Len(new) <= cap
     /\ heap' = recalculate_indices(heap \o new, ids)
     /\ texts' = [texts EXCEPT ![slot] = ids]
     /\ call' = [NoCall EXCEPT !.op = "from_string", !.string = string,
                               !.out1 = ids]
     /\ UNCHANGED <<naligns, ninserts, nloads>>

FromString(slot, string) == FromStringCapped(slot, string, MaxTok)

\* t.insert(index, string=string)
Insert(slot, index, string) ==
  LET id == Len(heap) + 1
      r == InsertToken(Append(heap, create_token(string)), texts[slot],
                       index, id)
  IN /\ ninserts < MaxInserts
     /\ Len(texts[slot]) < MaxLen
     /\ Len(heap) < MaxTok
     /\ heap' = r.h
     /\ texts' = [texts EXCEPT ![slot] = r.toks]
     /\ call' = [NoCall EXCEPT !.op = "insert"]
     /\ ninserts' = ninserts + 1
     /\ UNCHANGED <<naligns, nloads>>

\* texts[OutA], texts[OutB] = align_sentences(texts[x], texts[y])
AlignLimited(x, y, maxlen, cap, limit) ==
  /\ naligns < limit
  /\ Len(texts[x]) <= maxlen
  /\ Len(texts[y]) <= maxlen
  /\ \E r \in {align_sentences(heap, texts[x], texts[y])} :
     /\ naligns' = naligns + 1
     /\ UNCHANGED <<ninserts, nloads>>
     /\ Len(r.h) <= cap
     /\ heap' = r.h
     /\ call' = r.call
     /\ texts' = IF r.call.status = "ok"
                   THEN [texts EXCEPT ![OutA] = r.call.out1,
                                      ![OutB] = r.call.out2]
                   ELSE texts

AlignCapped(x, y, maxlen, cap) == AlignLimited(x, y, maxlen, cap, MaxAligns)

\* the variables a caller can pass: its own texts and, once align_sentences
\* has returned, the two results
Bound == UserSlots \cup (IF naligns > 0 THEN {OutA, OutB} ELSE {})

Align(x, y) == x \in Bound /\ y \in Bound /\ AlignCapped(x, y, MaxLen, MaxTok)

Next ==
  \/ \E slot \in UserSlots, string \in StringsUpTo(MaxStrLen) :
       FromString(slot, string)
  \/ \E slot \in UserSlots, index \in 0 .. MaxLen, string \in InsertStrings :
       index <= Len(texts[slot]) /\ Insert(slot, index, string)
  \/ \E x \in Slots, y \in Slots : Align(x, y)

Spec == Init /\ [][Next]_vars

(***************************************************************************)
(* Self-alignment: a Text built by Text.insert(index, token) from tokens   *)
(* the caller constructed, with or without an original, aligned with       *)
(* itself.                                                                 *)
(***************************************************************************)
SelfTexts == {<<"a", "a">>, <<"b", "b">>}

SelfOriginals ==
  {NoOriginal}
    \cup {[present |-> TRUE, kind |-> "Word", text |-> t] : t \in SelfTexts}

SelfPool ==
  {NewToken("Word", t, FALSE, 0, o) : t \in SelfTexts, o \in SelfOriginals}

InitSelf ==
  /\ \E k \in 1 .. MaxSelfLen : \E toks \in [1 .. k -> SelfPool] :
       heap = recalculate_indices(toks, [p \in 1 .. k |-> p])
  /\ texts = [s \in Slots |-> IF s = 1 THEN [p \in 1 .. Len(heap) |-> p]
                              ELSE <<>>]
  /\ call = NoCall
  /\ naligns = 0
  /\ ninserts = 0
  /\ nloads = 0

AlignSelf == AlignCapped(1, 1, MaxSelfLen, 4 * MaxSelfLen)

NextSelf == AlignSelf

SpecSelf == InitSelf /\ [][NextSelf]_vars

(***************************************************************************)
(* Serialization: texts built by Text.insert(index, token) from tokens the *)
(* caller constructed (with or without an original, with or without a     *)
(* background), aligned or not, and taken through to_dict and from_dict.   *)
(***************************************************************************)
SerTexts == {<<"a">>, <<>>}

SerOriginals ==
  {NoOriginal,
   [present |-> TRUE, kind |-> "Spacer", text |-> <<>>],
   [present |-> TRUE, kind |-> "Word", text |-> <<"b">>]}

SerBackgrounds == {"None", "WHITE"}

SerPool ==
  {[create_token(t) EXCEPT !.original = o, !.bg = b] :
     t \in SerTexts, o \in SerOriginals, b \in SerBackgrounds}

SerOthers == {create_token(t) : t \in SerTexts \cup {<<"b">>}}

InitSer ==
  /\ \E k \in 1 .. MaxSerLen : \E toks \in [1 .. k -> SerPool] :
       \E other \in SerOthers :
         /\ heap = recalculate_indices(
                     recalculate_indices(Append(toks, other),
                                         [p \in 1 .. k |-> p]),
                     <<k + 1>>)
         /\ texts = [s \in Slots |->
                       IF s = 1 THEN [p \in 1 .. k |-> p]
                       ELSE IF s = 2 THEN <<k + 1>> ELSE <<>>]
  /\ call = NoCall
  /\ naligns = 0
  /\ ninserts = 0
  /\ nloads = 0

AlignSer == AlignCapped(1, 2, MaxSerLen, 4 * MaxSerLen)

\* r = Text.from_dict(texts[slot].to_dict())
RoundTrip(slot) ==
  LET data == TextToDict(heap, texts[slot])
      r == TextFromDict(heap, data)
  IN /\ nloads < MaxLoads
     /\ slot \in Bound
     /\ heap' = r.h
     /\ call' = [NoCall EXCEPT !.op = "round_trip", !.data = data,
                               !.tokens1 = texts[slot],
                               !.status = r.status, !.out1 = r.toks]
     /\ nloads' = nloads + 1
     /\ UNCHANGED <<texts, naligns, ninserts>>

NextSer ==
  \/ AlignSer
  \/ \E slot \in Slots : RoundTrip(slot)

SpecSer == InitSer /\ [][NextSer]_vars

(***************************************************************************)
(* Deserialization of records that were not written by to_dict.            *)
(***************************************************************************)
Without(d, key) == [f \in DOMAIN d \ {key} |-> d[f]]

TypeTags == TOKEN_CLASSES \cup {"create_token", "Text", "Generic"}

WellFormedToken == TokenToDict(create_token(<<"a">>))

TokenDicts ==
  {[WellFormedToken EXCEPT !.type = t] : t \in TypeTags}
    \cup {Without(WellFormedToken, f) : f \in TOKEN_FIELDS}

DictInputs ==
  UNION {{[tokens |-> ts, text |-> <<"a">>] : ts \in [1 .. k -> TokenDicts]} :
           k \in 0 .. MaxDictLen}
    \cup {Without([tokens |-> <<WellFormedToken>>, text |-> <<"a">>], key) :
            key \in {"tokens", "text"}}

\* r = Text.from_dict(data)
FromDict(data) ==
  LET r == TextFromDict(heap, data)
  IN /\ nloads < MaxLoads
     /\ heap' = r.h
     /\ call' = [NoCall EXCEPT !.op = "from_dict", !.data = data,
                               !.status = r.status, !.out1 = r.toks]
     /\ nloads' = nloads + 1
     /\ UNCHANGED <<texts, naligns, ninserts>>

NextDict == \E data \in DictInputs : FromDict(data)

SpecDict == Init /\ [][NextDict]_vars

(***************************************************************************)
(* align_strings on sentences and words of the documentation's examples.   *)
(***************************************************************************)
The == <<"t", "h", "e">>
Big == <<"b", "i", "g">>
Cat == <<"c", "a", "t">>
Sat == <<"s", "a", "t">>
Color == <<"c", "o", "l", "o", "r">>
Colour == <<"c", "o", "l", "o", "u", "r">>

RECURSIVE Sentence(_)
Sentence(words) ==
  IF words = <<>> THEN <<>>
  ELSE IF Len(words) = 1 THEN Head(words)
  ELSE Head(words) \o <<" ">> \o Sentence(Tail(words))

TheCatSat == Sentence(<<The, Cat, Sat>>)
TheBigCatSat == Sentence(<<The, Big, Cat, Sat>>)

ExampleStrings ==
  {TheCatSat, TheBigCatSat, Color, Colour,
   Sentence(<<The, Cat>>), Sentence(<<Big, Cat>>), Sentence(<<Cat, Sat>>),
   Sentence(<<The, Big, Cat>>)}

AlignExample(x, y) ==
  /\ x \in UserSlots /\ y \in UserSlots
  /\ AlignCapped(x, y, MaxExampleLen, 4 * MaxExampleLen)

NextExample ==
  \/ \E slot \in UserSlots, string \in ExampleStrings :
       FromStringCapped(slot, string, 2 * MaxExampleLen)
  \/ \E x \in Slots, y \in Slots : AlignExample(x, y)

SpecExample == Init /\ [][NextExample]_vars

(***************************************************************************)
(* The mismatch cost of one token pair: two texts of one token each, the   *)
(* first token with or without an original, aligned with each other.       *)
(***************************************************************************)
Cats == <<"c", "a", "t", "s">>
Dog == <<"d", "o", "g">>
Cot == <<"c", "o", "t">>

CostTexts == {Cat, Cats, Dog, Cot, <<"a", "t">>, <<"1", "0">>, <<"1", "1">>}

CostOriginals ==
  {NoOriginal}
    \cup {[present |-> TRUE, kind |-> "Word", text |-> t] : t \in {Cat, Dog}}

CostFirst ==
  {[create_token(t) EXCEPT !.original = o] :
     t \in CostTexts, o \in CostOriginals}

CostSecond == {create_token(t) : t \in CostTexts}

InitCost ==
  /\ \E token1 \in CostFirst, token2 \in CostSecond :
       heap = <<token1, token2>>
  /\ texts = [s \in Slots |-> IF s \in UserSlots THEN <<s>> ELSE <<>>]
  /\ call = NoCall
  /\ naligns = 0
  /\ ninserts = 0
  /\ nloads = 0

AlignCost == AlignCapped(1, 2, MaxCostLen, 4 * MaxCostLen)

NextCost == AlignCost

SpecCost == InitCost /\ [][NextCost]_vars

(***************************************************************************)
(* Lookup by character offset in texts built by from_string and insert.    *)
(***************************************************************************)
Positions == (0 - 1) .. (MaxStrLen + 1)

\* texts[slot].at_position(pos)
AtPosition(slot, pos) ==
  /\ call' = [NoCall EXCEPT !.op = "at_position", !.tokens1 = texts[slot],
                            !.pos = pos,
                            !.result = at_position(heap, texts[slot], pos)]
  /\ UNCHANGED <<heap, texts, naligns, ninserts, nloads>>

NextPosition ==
  \/ \E slot \in UserSlots, string \in StringsUpTo(MaxStrLen) :
       FromString(slot, string)
  \/ \E slot \in UserSlots, index \in 0 .. MaxLen, string \in InsertStrings :
       index <= Len(texts[slot]) /\ Insert(slot, index, string)
  \/ \E slot \in UserSlots, pos \in Positions : AtPosition(slot, pos)

SpecPosition == Init /\ [][NextPosition]_vars

(***************************************************************************)
(* A later invocation on one of the inputs of the previous one:            *)
(* align_sentences(a, Text(string)) or align_sentences(Text(string), b)    *)
(* after A1, B1 = align_sentences(a, b).                                   *)
(***************************************************************************)
AlignAgain(side, string) ==
  LET tk == whitespace_tokenize_from_nltk(string)
      new == MakeTokens(tk.tokens, 1)
      c == [k \in 1 .. Len(new) |-> Len(heap) + k]
      a == call.tokens1
      b == call.tokens2
  IN /\ call.op = "align" /\ call.status = "ok"
     /\ naligns < MaxAligns + MaxLater
     /\ tk.ok
     /\ \E h \in {recalculate_indices(heap \o new, c)},
           pair \in {IF side = 1 THEN <<a, c>> ELSE <<c, b>>} :
        \E r \in {align_sentences(h, pair[1], pair[2])} :
          /\ heap' = r.h
          /\ call' = r.call
          /\ texts' = IF r.call.status = "ok"
                        THEN [texts EXCEPT ![OutA] = r.call.out1,
                                           ![OutB] = r.call.out2]
                        ELSE texts
          /\ naligns' = naligns + 1
          /\ UNCHANGED <<ninserts, nloads>>

NextLater ==
  \/ \E slot \in UserSlots, string \in StringsUpTo(MaxLaterStrLen) :
       FromString(slot, string)
  \/ \E x \in UserSlots, y \in UserSlots : Align(x, y)
  \/ \E side \in UserSlots, string \in StringsUpTo(MaxLaterStrLen) :
       AlignAgain(side, string)

SpecLater == Init /\ [][NextLater]_vars

(***************************************************************************)
(* Scoring of tokens the caller constructed through the token classes:     *)
(* equal texts of different kinds, a Generic token, originals whose text   *)
(* equals, differs from, or is as empty as the text they are compared to.  *)
(***************************************************************************)
TokenPool ==
  {NewToken("Word", <<"a", "b">>, FALSE, 0, NoOriginal),
   NewToken("Token", <<"a", "b">>, FALSE, 0, NoOriginal),
   NewToken("Word", <<"c", "b">>, FALSE, 0,
            [present |-> TRUE, kind |-> "Word", text |-> <<"a", "b">>]),
   NewToken("Word", <<"a">>, FALSE, 0,
            [present |-> TRUE, kind |-> "Spacer", text |-> <<>>]),
   NewToken("Word", <<"c">>, FALSE, 0, NoOriginal),
   NewToken("Spacer", <<>>, FALSE, 0, NoOriginal),
   NewToken("Punctuation", <<",">>, FALSE, 0, NoOriginal)}

\* two Texts built by Text.insert(index, token)
InitTokens ==
  /\ \E k1 \in 0 .. MaxPoolLen, k2 \in 0 .. MaxPoolLen :
       \E toks1 \in [1 .. k1 -> TokenPool], toks2 \in [1 .. k2 -> TokenPool] :
         /\ heap = recalculate_indices(
                     recalculate_indices(toks1 \o toks2,
                                         [p \in 1 .. k1 |-> p]),
                     [p \in 1 .. k2 |-> k1 + p])
         /\ texts = [s \in Slots |->
                       IF s = 1 THEN [p \in 1 .. k1 |-> p]
                       ELSE IF s = 2 THEN [p \in 1 .. k2 |-> k1 + p]
                       ELSE <<>>]
  /\ call = NoCall
  /\ naligns = 0
  /\ ninserts = 0
  /\ nloads = 0

AlignTokens == AlignCapped(1, 2, MaxPoolLen, 4 * MaxPoolLen)

NextTokens == AlignTokens

SpecTokens == InitTokens /\ [][NextTokens]_vars

(***************************************************************************)
(* Classification of the units a caller hands to create_token.             *)
(***************************************************************************)
UnitAlphabet == {"a", "1", "+", "*", "-", ".", "!", "\n"}

Units == UNION {[1 .. k -> UnitAlphabet] : k \in 0 .. MaxUnitLen}

\* token = create_token(text)
CreateToken(text) ==
  /\ Len(heap) < MaxUnits
  /\ heap' = Append(heap, create_token(text))
  /\ call' = [NoCall EXCEPT !.op = "create_token", !.string = text,
                            !.result = Len(heap) + 1]
  /\ UNCHANGED <<texts, naligns, ninserts, nloads>>

NextUnits == \E text \in Units : CreateToken(text)

SpecUnits == Init /\ [][NextUnits]_vars

(***************************************************************************)
(* Editing: insert_char on the Texts a caller built from strings.          *)
(***************************************************************************)
InsertChars == {"b", ","}

\* texts[slot].insert_char(index, char)
InsertChar(slot, index, char) ==
  /\ ninserts < MaxCharInserts
  /\ heap' = insert_char(heap, texts[slot], index, char)
  /\ call' = [NoCall EXCEPT !.op = "insert_char", !.tokens1 = texts[slot],
                            !.pos = index, !.string = <<char>>,
                            !.result = at_position(heap, texts[slot], index)]
  /\ ninserts' = ninserts + 1
  /\ UNCHANGED <<texts, naligns, nloads>>

NextEdit ==
  \/ \E slot \in UserSlots, string \in StringsUpTo(MaxStrLen) :
       FromString(slot, string)
  \/ \E slot \in UserSlots, index \in Positions, char \in InsertChars :
       InsertChar(slot, index, char)

SpecEdit == Init /\ [][NextEdit]_vars

(***************************************************************************)
(* Properties                                                              *)
(***************************************************************************)
Returned == call.op = "align" /\ call.status = "ok"

\* output position k (1-based) was produced by the walk's step StepOf(k)
StepOf(k) == call.path[Len(call.path) - k + 1]

Range(seq) == {seq[k] : k \in 1 .. Len(seq)}

\* Python's s[a:b] for 0 <= a <= b
Slice(seq, a, b) ==
  LET hi == IF b > Len(seq) THEN Len(seq) ELSE b
  IN IF a >= hi THEN <<>> ELSE SubSeq(seq, a + 1, hi)

\* C1: whenever align_sentences returns, the two aligned sequences hold the
\* same number of tokens.
C1_EqualLength == Returned => Len(texts[OutA]) = Len(texts[OutB])

\* an alignment with a gap on each side has returned
C1_Witness ==
  /\ Returned
  /\ \E k \in 1 .. Len(call.path) : call.path[k].move = "U"
  /\ \E k \in 1 .. Len(call.path) : call.path[k].move = "L"

Admissible(trace, i, j) ==
  \/ "D" \in trace /\ i > 0 /\ j > 0
  \/ "U" \in trace /\ i > 0
  \/ "L" \in trace /\ j > 0

\* C2: for two non-empty sequences the traceback walk from (n, m) terminates,
\* every step strictly decreases i + j, every visited cell other than (0, 0)
\* carries an admissible move, and the walk stops only at (0, 0).
C2_WalkReachesOrigin ==
  (/\ call.op = "align"
   /\ Len(call.tokens1) > 0
   /\ Len(call.tokens2) > 0
   /\ call.status # "ZeroDivisionError")
  => /\ call.status = "ok"
     /\ call.i = 0 /\ call.j = 0
     /\ Len(call.path) > 0
     /\ call.path[1].i = Len(call.tokens1)
     /\ call.path[1].j = Len(call.tokens2)
     /\ \A k \in 1 .. Len(call.path) :
          LET c == call.path[k]
              ni == IF k < Len(call.path) THEN call.path[k + 1].i ELSE call.i
              nj == IF k < Len(call.path) THEN call.path[k + 1].j ELSE call.j
          IN /\ Admissible(call.trace[c.i][c.j], c.i, c.j)
             /\ ni >= 0 /\ nj >= 0
             /\ ni + nj < c.i + c.j

\* a walk that leaves the interior and finishes along the first column
C2_Witness ==
  /\ Returned
  /\ Len(call.tokens2) > 0
  /\ \E k \in 1 .. Len(call.path) :
       call.path[k].j = 0 /\ call.path[k].move = "U"
  /\ \E k \in 1 .. Len(call.path) : call.path[k].move = "D"

\* C3: aligning two zero-length sequences returns normally with two empty
\* aligned sequences.
C3_EmptyEmptyReturns ==
  (call.op = "align" /\ call.tokens1 = <<>> /\ call.tokens2 = <<>>)
  => call.status = "ok" /\ call.out1 = <<>> /\ call.out2 = <<>>

\* C4: aligning n >= 1 tokens against an empty sequence returns normally, the
\* non-empty side unchanged and the empty side n gap placeholders of empty
\* text.
C4_OneSideEmptyReturns ==
  /\ (call.op = "align" /\ call.tokens1 # <<>> /\ call.tokens2 = <<>>)
     => /\ call.status = "ok"
        /\ call.out1 = call.tokens1
        /\ Len(call.out2) = Len(call.tokens1)
        /\ \A k \in 1 .. Len(call.out2) :
             heap[call.out2[k]].kind = "Spacer" /\ heap[call.out2[k]].text = <<>>
  /\ (call.op = "align" /\ call.tokens1 = <<>> /\ call.tokens2 # <<>>)
     => /\ call.status = "ok"
        /\ call.out2 = call.tokens2
        /\ Len(call.out1) = Len(call.tokens2)
        /\ \A k \in 1 .. Len(call.out1) :
             heap[call.out1[k]].kind = "Spacer" /\ heap[call.out1[k]].text = <<>>

\* C5: align(seq, seq) walks only diagonal moves, emits no gap placeholder and
\* ends with score[n][n] = match_score * len(seq), also when tokens of seq
\* carry an original.
C5_SelfAlignmentDiagonal ==
  (call.op = "align" /\ call.tokens1 = call.tokens2 /\ call.tokens1 # <<>>)
  => /\ call.status = "ok"
     /\ \A k \in 1 .. Len(call.path) : call.path[k].move = "D"
     /\ call.out1 = call.tokens1 /\ call.out2 = call.tokens2
     /\ call.score[Len(call.tokens1)][Len(call.tokens2)]
          = match_score * Len(call.tokens1)

\* C6: every gap placeholder of the returned sequences has empty text and a
\* non-negative padding width equal to the text length of the token at the
\* same position of the other sequence.
C6_GapPadding ==
  Returned =>
    \A k \in 1 .. Len(call.path) :
      LET gap == IF StepOf(k).move = "U" THEN heap[call.out2[k]]
                 ELSE heap[call.out1[k]]
          other == IF StepOf(k).move = "U" THEN heap[call.out1[k]]
                   ELSE heap[call.out2[k]]
      IN StepOf(k).move \in {"U", "L"}
           => /\ gap.kind = "Spacer"
              /\ gap.text = <<>>
              /\ gap.alignment_spaces >= 0
              /\ gap.alignment_spaces = Len(other.text)

\* C7: at every position the padded renderings of the two returned tokens
\* have the same width.
C7_EqualColumnWidth ==
  Returned =>
    \A k \in 1 .. Len(call.out1) :
      k <= Len(call.out2)
        => TextAlignedLen(heap[call.out1[k]]) = TextAlignedLen(heap[call.out2[k]])

DenseIndices(toks) == \A k \in 1 .. Len(toks) : heap[toks[k]].index = k - 1

\* C8: after any sequence of from_string, insert and align, every sequence,
\* the inputs of align included, has index values 0 .. n-1 in list order.
C8_DenseIndices == \A s \in Slots : DenseIndices(texts[s])

\* C9: no token object is an element of two different sequences.
C9_ExclusiveOwnership ==
  \A s1 \in Slots, s2 \in Slots :
    s1 # s2 => Range(texts[s1]) \cap Range(texts[s2]) = {}

\* C10: after reindexing, start is the offset of the token in to_string():
\* to_string()[start : start + len(text)] = text, and start never decreases
\* along the sequence.
C10_StartIsOffset ==
  (naligns = 0) =>
    \A s \in Slots :
      LET toks == texts[s]
          flat == to_string(heap, toks)
      IN \A k \in 1 .. Len(toks) :
           LET t == heap[toks[k]]
           IN /\ Slice(flat, t.start, t.start + Len(t.text)) = t.text
              /\ k > 1 => heap[toks[k - 1]].start <= t.start

(***************************************************************************)
(* Tokenizer                                                               *)
(***************************************************************************)
WhitespaceAt(string) == {k \in 1 .. Len(string) : IsSpace(string[k])}

\* C11: for every non-empty string that tokenizes, every whitespace character
\* of the string is a single-character token of the result, in order, so that
\* the plain join of the tokens has whitespace exactly where the string has.
C11_WhitespacePreserved ==
  (call.op = "from_string" /\ call.string # <<>>)
  => /\ WhitespaceAt(to_string(heap, call.out1)) = WhitespaceAt(call.string)
     /\ Cardinality({k \in 1 .. Len(call.out1) :
                       heap[call.out1[k]].text = <<" ">>})
          = Cardinality(WhitespaceAt(call.string))

(***************************************************************************)
(* Serialization                                                           *)
(***************************************************************************)
RoundTripped == call.op = "round_trip"

\* C12: from_dict(to_dict(t)) has the same ordered list of (kind, text)
\* pairs as t.
C12_RoundTripKindText ==
  RoundTripped
  => /\ call.status = "ok"
     /\ Len(call.out1) = Len(call.tokens1)
     /\ \A k \in 1 .. Len(call.tokens1) :
          /\ heap[call.out1[k]].kind = heap[call.tokens1[k]].kind
          /\ heap[call.out1[k]].text = heap[call.tokens1[k]].text

\* an aligned sequence holding a Spacer and a word went through the round trip
C12_Witness ==
  /\ RoundTripped
  /\ naligns = 1
  /\ \E k \in 1 .. Len(call.tokens1) : heap[call.tokens1[k]].kind = "Spacer"
  /\ \E k \in 1 .. Len(call.tokens1) : heap[call.tokens1[k]].kind = "Word"

\* C13: every token of from_dict(to_dict(t)) has the color, background,
\* aligned flag, padding width and operation of the token at its position
\* in t.
C13_RoundTripAnnotations ==
  RoundTripped
  => /\ call.status = "ok"
     /\ Len(call.out1) = Len(call.tokens1)
     /\ \A k \in 1 .. Len(call.tokens1) :
          LET new == heap[call.out1[k]]
              old == heap[call.tokens1[k]]
          IN /\ new.color = old.color
             /\ new.bg = old.bg
             /\ new.aligned = old.aligned
             /\ new.alignment_spaces = old.alignment_spaces
             /\ new.operation = old.operation

\* C14: a token with an original serializes to a record with a nested
\* record for it and deserializes to a token whose original has the same
\* kind and text, whatever the original's text; a token without original
\* deserializes without one.
C14_RoundTripOriginal ==
  RoundTripped
  => /\ call.status = "ok"
     /\ Len(call.out1) = Len(call.tokens1)
     /\ \A k \in 1 .. Len(call.tokens1) :
          LET new == heap[call.out1[k]]
              old == heap[call.tokens1[k]]
          IN /\ call.data.tokens[k].original.present = old.original.present
             /\ new.original = old.original

MalformedToken(t) ==
  \/ TOKEN_FIELDS \ DOMAIN t # {}
  \/ t.type \notin TOKEN_CLASSES

Malformed(data) ==
  \/ {"tokens", "text"} \ DOMAIN data # {}
  \/ \E k \in 1 .. Len(data.tokens) : MalformedToken(data.tokens[k])

\* C15: deserializing a record with a token record whose kind tag is not a
\* token kind, or which lacks a required field, fails with an error and
\* yields no sequence.
C15_MalformedFailsClosed ==
  (call.op = "from_dict" /\ Malformed(call.data))
  => call.status # "ok" /\ call.out1 = <<>>

(***************************************************************************)
(* End-to-end examples                                                     *)
(***************************************************************************)
Aligned(s1, s2) ==
  /\ call.op = "align"
  /\ to_string(heap, call.tokens1) = s1
  /\ to_string(heap, call.tokens2) = s2

\* the walk paired two tokens of text w by a diagonal move
PairedDiagonally(w) ==
  \E k \in 1 .. Len(call.path) :
    /\ StepOf(k).move = "D"
    /\ heap[call.out1[k]].text = w
    /\ heap[call.out2[k]].text = w

\* C16: aligning "the cat sat" against "the big cat sat" pairs "the", "cat"
\* and "sat" with themselves by diagonal moves and puts a gap placeholder of
\* padding width 3 opposite "big" in the first aligned sequence.
C16_TheBigCatSat ==
  Aligned(TheCatSat, TheBigCatSat)
  => /\ call.status = "ok"
     /\ \A w \in {The, Cat, Sat} : PairedDiagonally(w)
     /\ \E k \in 1 .. Len(call.path) :
          /\ StepOf(k).move = "L"
          /\ heap[call.out2[k]].text = Big
          /\ heap[call.out1[k]].kind = "Spacer"
          /\ heap[call.out1[k]].text = <<>>
          /\ heap[call.out1[k]].alignment_spaces = Len(Big)

C16_Witness ==
  /\ Aligned(TheCatSat, TheBigCatSat)
  /\ call.status = "ok"
  /\ Len(call.out1) = Len(call.tokens2)

\* C17 as stated: aligning "color" against "colour" gives a diagonal run,
\* one gap placeholder opposite "u" and a diagonal move, the score being a
\* full match for every diagonal move plus one gap penalty.
C17_CharacterLevel ==
  Aligned(Color, Colour)
  => /\ call.status = "ok"
     /\ \E k \in 1 .. Len(call.path) :
          /\ StepOf(k).move = "L"
          /\ heap[call.out1[k]].kind = "Spacer"
          /\ heap[call.out2[k]].text = <<"u">>
     /\ \A k \in 1 .. Len(call.path) :
          StepOf(k).move # "L"
            => /\ StepOf(k).move = "D"
               /\ heap[call.out1[k]].text = heap[call.out2[k]].text
     /\ call.score[Len(call.tokens1)][Len(call.tokens2)]
          = match_score * (Len(call.path) - 1) + gap_score

\* C17 amended: each of "color" and "colour" is one Word token; the two are
\* paired by a single diagonal move with no gap placeholder, the score is
\* the mismatch cost for the common substring "colo" of 4 out of 6
\* characters plus the type bonus, and "color" is padded by one.
C17_WordLevel ==
  Aligned(Color, Colour)
  => /\ call.status = "ok"
     /\ Len(call.tokens1) = 1 /\ Len(call.tokens2) = 1
     /\ call.out1 = call.tokens1 /\ call.out2 = call.tokens2
     /\ Len(call.path) = 1 /\ StepOf(1).move = "D"
     /\ heap[call.out1[1]].kind = "Word" /\ heap[call.out2[1]].kind = "Word"
     /\ call.score[1][1]
          = mismatch_score + (4 * substring_match_score) \div 6
              + type_match_score
     /\ heap[call.out1[1]].alignment_spaces = 1
     /\ heap[call.out2[1]].alignment_spaces = 0

C17_Witness == Aligned(Color, Colour) /\ call.status = "ok"

(***************************************************************************)
(* Mismatch cost                                                           *)
(***************************************************************************)
\* a pair of differing tokens was scored: score[1][1] is its mismatch cost,
\* which is never below the two gaps of the alternatives
Mismatched ==
  /\ call.op = "align" /\ call.status = "ok"
  /\ Len(call.tokens1) = 1 /\ Len(call.tokens2) = 1
  /\ heap[call.tokens1[1]].text # heap[call.tokens2[1]].text

LcsLen(token1, token2) ==
  Len(longest_common_substring(ToMatchText(token1), token2.text))

\* the other pair has the maximum length, the kinds and the original bonus
\* of the pair that was scored
AllElseEqual(a1, a2, b1, b2) ==
  /\ b1.text # b2.text
  /\ MismatchMaxLen(b1, b2) = MismatchMaxLen(a1, a2)
  /\ b1.kind = a1.kind /\ b2.kind = a2.kind
  /\ OriginalMatch(b1, b2) = OriginalMatch(a1, a2)

Plain(text) == create_token(text)

ScoredPair(s1, s2) ==
  /\ Mismatched
  /\ heap[call.tokens1[1]].text = s1
  /\ ~heap[call.tokens1[1]].original.present
  /\ heap[call.tokens2[1]].text = s2

\* C18: with the maximum length, the kinds and the original bonus fixed, a
\* pair with no longer a common substring never costs more; and the cost of
\* ("cat", "cats") is strictly above that of ("cat", "dog").
C18_MismatchMonotone ==
  /\ Mismatched
     => LET a1 == heap[call.tokens1[1]]
            a2 == heap[call.tokens2[1]]
        IN \A b1 \in CostFirst, b2 \in CostSecond :
             (AllElseEqual(a1, a2, b1, b2) /\ LcsLen(b1, b2) <= LcsLen(a1, a2))
               => DiagonalCost(b1, b2) <= call.score[1][1]
  /\ ScoredPair(Cat, Cats)
       => call.score[1][1] > DiagonalCost(Plain(Cat), Plain(Dog))
  /\ ScoredPair(Cat, Dog)
       => call.score[1][1] < DiagonalCost(Plain(Cat), Plain(Cats))

\* ("cat", "cats") was scored, and the pool holds a pair of the same kinds
\* and maximum length with a shorter common substring
C18_Witness ==
  /\ ScoredPair(Cat, Cats)
  /\ \E b1 \in CostFirst, b2 \in CostSecond :
       /\ AllElseEqual(heap[call.tokens1[1]], heap[call.tokens2[1]], b1, b2)
       /\ LcsLen(b1, b2) < LcsLen(heap[call.tokens1[1]], heap[call.tokens2[1]])

(***************************************************************************)
(* Lookup by offset                                                        *)
(***************************************************************************)
\* the half-open span [start, start + len) of the token holds pos
SpanHolds(id, pos) ==
  heap[id].start <= pos /\ pos < heap[id].start + Len(heap[id].text)

\* C19: at_position(p) returns a token only if its half-open span holds p,
\* and returns none when no token's span holds p; so an offset at the end
\* of one token and the start of the next gives the next token, and a
\* zero-length token is never returned.
C19_HalfOpenSpan ==
  call.op = "at_position"
  => /\ call.result # 0 => SpanHolds(call.result, call.pos)
     /\ (\A k \in 1 .. Len(call.tokens1) :
           ~SpanHolds(call.tokens1[k], call.pos)) => call.result = 0

(***************************************************************************)
(* Independence of invocations                                             *)
(***************************************************************************)
\* the step is a later invocation made after A1, B1 were returned
LaterInvocation ==
  /\ call.op = "align" /\ call.status = "ok"
  /\ naligns >= 1 /\ naligns' = naligns + 1

SameTokens(toks) == \A k \in 1 .. Len(toks) : heap'[toks[k]] = heap[toks[k]]

\* C20: after align(a, b) has returned (A1, B1), a later align(a, c) or
\* align(c, b) leaves every token of A1 and of B1 as it was returned
\* (padding width, aligned flag, color, index and start).
C20_LaterCallLeavesResults ==
  [][LaterInvocation => SameTokens(texts[OutA]) /\ SameTokens(texts[OutB])]_vars

(***************************************************************************)
(* The score and traceback matrices                                        *)
(***************************************************************************)
\* the scorer returned its two matrices
Scored == call.op = "align" /\ call.status # "ZeroDivisionError"

Token1(i) == heap[call.tokens1[i]]
Token2(j) == heap[call.tokens2[j]]

\* the cost of pairing token i of the first input with token j of the second
PairCost(i, j) ==
  IF Token1(i).text = Token2(j).text THEN match_score
  ELSE MismatchScoreAdjusted(Token1(i), Token2(j))
         + OriginalMatch(Token1(i), Token2(j))

Candidate(d, i, j) ==
  IF d = "D" THEN call.score[i - 1][j - 1] + PairCost(i, j)
  ELSE IF d = "U" THEN call.score[i - 1][j] + gap_score
  ELSE call.score[i][j - 1] + gap_score

\* C21: the score matrix the scorer returns has shape (n+1) x (m+1), row 0
\* and column 0 hold j * gap_score and i * gap_score (0 at the origin), and
\* every inner cell is the maximum of
\* up, left and diagonal, the diagonal adding match_score exactly when the
\* two texts are equal (whatever the kinds and annotations) and the mismatch
\* cost plus the original bonus otherwise.
C21_ScoreRecurrence ==
  Scored
  => LET n == Len(call.tokens1)
         m == Len(call.tokens2)
     IN /\ DOMAIN call.score = 0 .. n
        /\ \A i \in 0 .. n : DOMAIN call.score[i] = 0 .. m
        /\ call.score[0][0] = 0
        /\ \A i \in 0 .. n : call.score[i][0] = i * gap_score
        /\ \A j \in 0 .. m : call.score[0][j] = j * gap_score
        /\ \A i \in 1 .. n, j \in 1 .. m :
             call.score[i][j] =
               Max2(Candidate("D", i, j),
                    Max2(Candidate("U", i, j), Candidate("L", i, j)))

\* a 2 x 2 matrix with a pair of equal texts of different kinds chosen on the
\* diagonal, and a pair of different texts whose first token has an original
C21_Witness ==
  /\ Returned
  /\ Len(call.tokens1) = MaxPoolLen /\ Len(call.tokens2) = MaxPoolLen
  /\ \E i \in 1 .. Len(call.tokens1), j \in 1 .. Len(call.tokens2) :
       /\ Token1(i).text = Token2(j).text
       /\ Token1(i).kind # Token2(j).kind
       /\ call.score[i][j] = Candidate("D", i, j)
  /\ \E i \in 1 .. Len(call.tokens1), j \in 1 .. Len(call.tokens2) :
       /\ Token1(i).text # Token2(j).text
       /\ Token1(i).original.present

\* C22: the traceback keeps ties: no tag at (0,0), exactly up in column 0,
\* exactly left in row 0, and in every inner cell exactly the directions
\* whose candidate equals the cell's score, at least one.
C22_TracebackTies ==
  Scored
  => LET n == Len(call.tokens1)
         m == Len(call.tokens2)
     IN /\ call.trace[0][0] = {}
        /\ \A i \in 1 .. n : call.trace[i][0] = {"U"}
        /\ \A j \in 1 .. m : call.trace[0][j] = {"L"}
        /\ \A i \in 1 .. n, j \in 1 .. m :
             /\ call.trace[i][j] =
                  {d \in {"D", "U", "L"} :
                     Candidate(d, i, j) = call.score[i][j]}
             /\ call.trace[i][j] # {}

\* a cell where all three directions tie
C22_Witness ==
  /\ Scored
  /\ \E i \in 1 .. Len(call.tokens1), j \in 1 .. Len(call.tokens2) :
       call.trace[i][j] = {"D", "U", "L"}

(***************************************************************************)
(* The bonuses of the mismatch branch, read off the cells whose score came *)
(* from the diagonal: score[i][j] - score[i-1][j-1] is the pair's cost.    *)
(***************************************************************************)
MismatchCell(i, j) ==
  /\ Token1(i).text # Token2(j).text
  /\ "D" \in call.trace[i][j]

CellCost(i, j) == call.score[i][j] - call.score[i - 1][j - 1]

\* mismatch_score + (len(lcs) / max_len) * substring_match_score
SubstringCost(token1, token2) ==
  mismatch_score
    + (LcsLen(token1, token2) * substring_match_score)
        \div MismatchMaxLen(token1, token2)

\* C23: in the mismatch branch type_match_score is added to the mismatch
\* cost if and only if token1 and token2 have the same kind and the longer
\* of the two compared texts is longer than 1; never for different kinds.
C23_TypeBonusSameKind ==
  Scored
  => \A i \in 1 .. Len(call.tokens1), j \in 1 .. Len(call.tokens2) :
       MismatchCell(i, j)
       => CellCost(i, j) - SubstringCost(Token1(i), Token2(j))
            - OriginalMatch(Token1(i), Token2(j))
          = IF /\ Token1(i).kind = Token2(j).kind
               /\ MismatchMaxLen(Token1(i), Token2(j)) > 1
              THEN type_match_score ELSE 0

\* C24: in the mismatch branch the original bonus is original_match_score
\* when token1.original exists and its text equals token2.text, plus
\* type_match_score when the original's kind also equals token2's kind, and
\* 0 in every other case.
C24_OriginalBonus ==
  Scored
  => \A i \in 1 .. Len(call.tokens1), j \in 1 .. Len(call.tokens2) :
       MismatchCell(i, j)
       => CellCost(i, j) - MismatchScoreAdjusted(Token1(i), Token2(j))
          = IF /\ Token1(i).original.present
               /\ Token1(i).original.text = Token2(j).text
              THEN original_match_score
                     + (IF Token1(i).original.kind = Token2(j).kind
                          THEN type_match_score ELSE 0)
              ELSE 0

(***************************************************************************)
(* The traceback walk                                                      *)
(***************************************************************************)
CanD(i, j) == "D" \in call.trace[i][j] /\ i > 0 /\ j > 0
CanU(i, j) == "U" \in call.trace[i][j] /\ i > 0
CanL(i, j) == "L" \in call.trace[i][j] /\ j > 0

\* C25: at every visited cell the walk takes the diagonal move when the cell
\* carries the diagonal tag and i > 0 and j > 0, whatever other tags it
\* carries; the up move only when the diagonal one is not admissible and the
\* cell carries up with i > 0; the left move only when neither is admissible
\* and the cell carries left with j > 0; otherwise it stops.
C25_MovePriority ==
  Returned
  => /\ \A k \in 1 .. Len(call.path) :
          LET c == call.path[k]
          IN /\ c.move = "D" <=> CanD(c.i, c.j)
             /\ c.move = "U" <=> ~CanD(c.i, c.j) /\ CanU(c.i, c.j)
             /\ c.move = "L" <=> /\ ~CanD(c.i, c.j) /\ ~CanU(c.i, c.j)
                                 /\ CanL(c.i, c.j)
     /\ ~CanD(call.i, call.j) /\ ~CanU(call.i, call.j)
     /\ ~CanL(call.i, call.j)

\* a walk through a cell where all three directions tie and through a cell
\* that carries up and left
C25_Witness ==
  /\ Returned
  /\ \E k \in 1 .. Len(call.path) :
       call.trace[call.path[k].i][call.path[k].j] = {"D", "U", "L"}
  /\ \E k \in 1 .. Len(call.path) :
       /\ call.trace[call.path[k].i][call.path[k].j] = {"U", "L"}
       /\ call.path[k].move = "U"

(***************************************************************************)
(* Classification                                                          *)
(***************************************************************************)
\* the word characters the classification is stated with: letters, digits,
\* hyphen, apostrophe, period
StatedWordChars == Letters \cup Digits \cup {"-", "'", "."}

StatedKind(text) ==
  IF text \in PUNCTUATION_MARKS THEN "Punctuation"
  ELSE IF Len(text) > 0 /\ \A k \in 1 .. Len(text) : text[k] \in Digits
    THEN "Numeric"
  ELSE IF Len(text) > 0 /\ \A k \in 1 .. Len(text) : text[k] \in StatedWordChars
    THEN "Word"
  ELSE IF text = <<>> THEN "Spacer"
  ELSE IF text \in {<<"\n">>, <<"\t">>} THEN "Special"
  ELSE "Token"

\* C26: a non-whitespace unit is classified by the priority punctuation
\* set, all digits, word pattern, empty, newline/tab, else Generic, and it
\* is a Word only if each of its characters is a letter, a digit, a hyphen,
\* an apostrophe or a period; a unit holding "+" or "*" is never a Word.
C26_WordCharacters ==
  (call.op = "create_token" /\ call.string # <<" ">>)
  => heap[call.result].kind = StatedKind(call.string)

(***************************************************************************)
(* The aligned outputs as arrangements of the inputs                       *)
(***************************************************************************)
\* the output positions whose step consumed a token of the first (second)
\* input
Kept1 == {k \in 1 .. Len(call.out1) : StepOf(k).move \in {"D", "U"}}
Kept2 == {k \in 1 .. Len(call.out2) : StepOf(k).move \in {"D", "L"}}

Rank(k, kept) == Cardinality({p \in kept : p <= k})

\* out holds the tokens of input at the positions kept, in input order; each
\* other position holds a Spacer that no other position holds
Arranges(out, kept, input) ==
  /\ Cardinality(kept) = Len(input)
  /\ \A k \in kept : out[k] = input[Rank(k, kept)]
  /\ \A k \in (1 .. Len(out)) \ kept :
       /\ heap[out[k]].kind = "Spacer"
       /\ \A other \in (1 .. Len(out)) \ {k} : out[other] # out[k]
  /\ \A k \in 1 .. Len(out), other \in 1 .. Len(out) :
       out[k] = out[other] => k = other

\* C27: each aligned output contains every token of its input exactly once
\* and in input order, every other entry is a gap placeholder at that
\* position only (one per left move in the first output, one per up move in
\* the second), and no token object occupies two positions of an output,
\* also when the inputs hold Spacer tokens that the gap synthesis reuses.
C27_InputTokensOnce ==
  Returned
  => /\ Len(call.out1) = Len(call.path)
     /\ Len(call.out2) = Len(call.path)
     /\ Arranges(call.out1, Kept1, call.tokens1)
     /\ Arranges(call.out2, Kept2, call.tokens2)

(***************************************************************************)
(* Optimality                                                              *)
(***************************************************************************)
StepCost(c) == IF c.move = "D" THEN PairCost(c.i, c.j) ELSE gap_score

RECURSIVE PathCost(_)
PathCost(k) ==
  IF k > Len(call.path) THEN 0 ELSE StepCost(call.path[k]) + PathCost(k + 1)

\* the totals of all global alignments of the first i tokens of the first
\* input with the first j tokens of the second
RECURSIVE Totals(_, _)
Totals(i, j) ==
  IF i = 0 /\ j = 0 THEN {0}
  ELSE (IF i > 0 /\ j > 0
          THEN {t + PairCost(i, j) : t \in Totals(i - 1, j - 1)} ELSE {})
       \cup (IF i > 0 THEN {t + gap_score : t \in Totals(i - 1, j)} ELSE {})
       \cup (IF j > 0 THEN {t + gap_score : t \in Totals(i, j - 1)} ELSE {})

\* C28: the walked path is a maximum-score global alignment: its step costs
\* (pair cost for a diagonal move, gap_score for an up or left move) add up
\* to score[n][m], and no global alignment of the two sequences has a
\* higher total.
C28_WalkIsOptimal ==
  Returned
  => LET n == Len(call.tokens1)
         m == Len(call.tokens2)
     IN /\ PathCost(1) = call.score[n][m]
        /\ \A t \in Totals(n, m) : t <= call.score[n][m]

\* a walk with a diagonal move and a gap, where some other alignment scores
\* less than the walked one and the all-gap alignment is not the best
C28_Witness ==
  /\ Returned
  /\ \E k \in 1 .. Len(call.path) : call.path[k].move = "D"
  /\ \E k \in 1 .. Len(call.path) : call.path[k].move # "D"
  /\ Cardinality(Totals(Len(call.tokens1), Len(call.tokens2))) > 2
  /\ PathCost(1) > gap_score * (Len(call.tokens1) + Len(call.tokens2))

\* C29: the scorer never fails on well-formed sequences: the divisor of the
\* mismatch branch, the longer of the comparison source text and
\* token2.text, is at least 1 whenever that branch is evaluated, also for an
\* original with empty text and for sequences that hold Spacer tokens.
C29_DivisorPositive ==
  call.op = "align"
  => /\ call.status # "ZeroDivisionError"
     /\ \A i \in 1 .. Len(call.tokens1), j \in 1 .. Len(call.tokens2) :
          Token1(i).text # Token2(j).text
          => MismatchMaxLen(Token1(i), Token2(j)) >= 1

(***************************************************************************)
(* insert_char                                                             *)
(***************************************************************************)
\* the step is a call of insert_char on the tokens toks
InsertCharCall == call'.op = "insert_char"

\* the tokens of the edited Text whose span holds the offset
Holding == {k \in 1 .. Len(call'.tokens1) :
              SpanHolds(call'.tokens1[k], call'.pos)}

\* C30: insert_char(offset, c) on a sequence where a token's span contains
\* the offset inserts c exactly once into that token's text at the offset:
\* the flat string grows by one character, no other token's text changes and
\* the sequence is reindexed; when no token contains the offset nothing
\* changes.
C30_InsertCharOnce ==
  [][InsertCharCall
     => LET toks == call'.tokens1
        IN IF Holding # {}
             THEN /\ \E k \in Holding :
                       /\ heap'[toks[k]].text =
                            InsertCharAt(heap[toks[k]].text,
                                         call'.pos - heap[toks[k]].start,
                                         call'.string[1])
                       /\ \A other \in (1 .. Len(toks)) \ {k} :
                            heap'[toks[other]].text = heap[toks[other]].text
                  /\ Len(to_string(heap', toks)) = Len(to_string(heap, toks)) + 1
                  /\ heap' = recalculate_indices(heap', toks)
             ELSE heap' = heap /\ texts' = texts]_vars

=============================================================================
